---- MODULE Spec2Model ----
(***************************************************************************)
(* Philips Hue integration: the bridge session (bridge.py, class           *)
(* HueBridge) and the pairing flow (config_flow.py, class HueFlowHandler). *)
(*                                                                         *)
(* Python's None is the empty tuple <<>> and an object x that may be None  *)
(* is the one-element tuple <<x>>.  A coroutine is cut at its awaits: one  *)
(* action per stretch of code the event loop runs without suspending.      *)
(***************************************************************************)
EXTENDS Integers, Sequences, FiniteSets, TLC

-----------------------------------------------------------------------------
(* Bounds of the model *)

\* request() calls of one session that are waiting or running at one time
MaxCalls == 11
\* calls of handle_unauthorized_error on one session
MaxUnauthorizedCalls == 2
\* pairing flows started in one run
MaxFlows == 2
\* groups and scenes the device holds
MaxGroups == 2
MaxScenes == 2
\* request() calls outstanding at one time where scene activation runs too
MaxLifecycleCalls == 4
\* length of the identifiers normalize_bridge_id is called with
MaxIdLen == 17

-----------------------------------------------------------------------------
(* Values *)

None == <<>>
Some(x) == <<x>>

\* The session objects.  Sessions share nothing but the service registry.
Sessions == {1, 2}
\* The session the specification Spec drives through all its operations.
Solo == {1}

Platforms == {"light", "binary_sensor", "sensor"}

\* api.config.modelid as the device reports it: the first-generation bridge
\* and a later one.
ModelIds == {"BSB001", "BSB002"}

\* What a call of the device library (aiohue) does: returns, or raises.
DeviceOutcomes ==
    {"ok", "LinkButtonNotPressed", "Unauthorized", "TimeoutError",
     "RequestError", "AiohueException", "Exception"}

\* What async_forward_entry_unload returns for one platform.
UnloadResults == {"True", "False", "None"}

NoUsername == "None"

Flows == 1..MaxFlows

\* The hosts on the network: two, so that one can have a registration while
\* the other has none.  The sessions are those of the entries of these
\* hosts.
Hosts == {1, 2}

\* Bridge identifiers are strings, here tuples of characters.  Two bridges,
\* each with the 16 characters of config.bridgeid and of nupnp, the 12 of
\* the ssdp serial number and the colon-separated id of HomeKit.
BridgeIdA == <<"0","0","1","7","8","8","f","f","f","e","2","3","a","f","1","5">>
BridgeIdB == <<"0","0","1","7","8","8","f","f","f","e","9","c","4","0","7","d">>
SerialA == <<"0","0","1","7","8","8","2","3","a","f","1","5">>
SerialB == <<"0","0","1","7","8","8","9","c","4","0","7","d">>
HomekitIdA ==
    <<"0","0",":","1","7",":","8","8",":","2","3",":","a","f",":","1","5">>
HomekitIdB ==
    <<"0","0",":","1","7",":","8","8",":","9","c",":","4","0",":","7","d">>

\* config.bridgeid as a device may report it
BridgeIds == {BridgeIdA, BridgeIdB}
\* the "serial" of an ssdp advertisement
Serials == {SerialA, SerialB}
\* properties.id of a HomeKit advertisement
HomekitIds == {HomekitIdA, HomekitIdB}

HUE_MANUFACTURERURL == "http://www.philips.com"
HUE_IGNORED_BRIDGE_NAMES == {"HASS Bridge", "Espalexa"}
\* manufacturerURL and name of an ssdp advertisement
ManufacturerUrls == {HUE_MANUFACTURERURL, "http://www.example.com"}
Names == {"Philips hue", "HASS Bridge", "Espalexa"}

\* Groups and scenes of the device: their names and the lists of their
\* lights, which the device gives in any order and without duplicates.
GroupNames == {"Kitchen", "Hall"}
SceneNames == {"Relax", "Dim"}
LightLists == {<<1, 2>>, <<2, 1>>, <<3, 4>>}
Groups == [name : GroupNames, lights : LightLists]
Scenes == [name : SceneNames, lights : LightLists]

\* config_entry.data of the session: its host and the stored username.
config_entry(s) == [host |-> s, username |-> "stored"]

host(s) == config_entry(s).host

-----------------------------------------------------------------------------
VARIABLES
    setup_state,    \* async_setup of the session: "new", "authenticating",
                    \* then what it returned or raised
    bridge_error,   \* what get_bridge raised in async_setup, "none" if nothing
    api,            \* self.api: None or the bridge object
    authorized,     \* self.authorized
    parallel_updates_semaphore,
                    \* None or the semaphore, given by its counter _value
    forwarded,      \* the forward_entry_setup task of each platform
    services,       \* hass.services: the handler of hue.hue_activate_scene
    created_flows,  \* the hosts create_config_flow was called with, per session
    waiting,        \* request calls suspended in the semaphore's acquire
    running,        \* request calls inside "await coro"
    outcomes,       \* how wrapped calls have ended so far
    reset_state,    \* async_reset: "idle", "unloading", or what it returned
    unload_results, \* the results gathered by the last async_reset
    unauthorized_calls,
                    \* calls of handle_unauthorized_error so far
    flows,          \* the HueFlowHandler objects: the step each is in, its
                    \* host and context, and the result it last returned
    flow_log,       \* per flow: what discovery and get_bridge answered and
                    \* the entry it created
    entries,        \* hass.config_entries: the stored registrations
    device_groups,  \* the groups of the device, in the order of their ids
    device_scenes,  \* the scenes of the device, in the order of their ids
    activate,       \* the hue_activate_scene call of the session in progress
    scene_log,      \* what the last hue_activate_scene call has done so far
    bridge_calls,   \* get_bridge, one call per host: the device calls it made
                    \* and what it returned or raised
    normalize_calls \* normalize_bridge_id: an argument and the values returned
                    \* for it and for what was returned

session_vars ==
    <<setup_state, bridge_error, api, authorized, parallel_updates_semaphore,
      forwarded, services, created_flows, waiting, running, outcomes,
      reset_state, unload_results, unauthorized_calls>>

flow_vars == <<flows, flow_log, entries>>

scene_vars == <<device_groups, device_scenes, activate, scene_log>>

pure_vars == <<bridge_calls, normalize_calls>>

vars == <<session_vars, flow_vars, scene_vars, pure_vars>>

-----------------------------------------------------------------------------
(* bridge.py *)

\* The bridge object get_bridge returns: bridge.initialize() has fetched the
\* configuration, the groups and the scenes of the device.
Bridge(modelid) ==
    [modelid |-> modelid, groups |-> device_groups, scenes |-> device_scenes]

\* Mutant of get_bridge: the "except aiohue.AiohueException" clause raises
\* CannotConnect.
get_bridge_aiohue_cannot_connect(username, create_user, initialize) ==
    LET raised == IF username = NoUsername /\ create_user # "ok"
                  THEN create_user
                  ELSE initialize
    IN  CASE raised = "ok" -> "ok"
          [] raised \in {"LinkButtonNotPressed", "Unauthorized"} ->
                "AuthenticationRequired"
          [] raised \in {"TimeoutError", "RequestError"} -> "CannotConnect"
          [] raised = "AiohueException" -> "CannotConnect"
          [] OTHER -> "Exception"

\* get_bridge: create the user when there is no username, then initialize;
\* map what the device library raised.  create_user and initialize are the
\* outcomes of the two device calls.
get_bridge(username, create_user, initialize) ==
    LET raised == IF username = NoUsername /\ create_user # "ok"
                  THEN create_user
                  ELSE initialize
    IN  CASE raised = "ok" -> "ok"
          [] raised \in {"LinkButtonNotPressed", "Unauthorized"} ->
                "AuthenticationRequired"
          [] raised \in {"TimeoutError", "RequestError"} -> "CannotConnect"
          [] raised = "AiohueException" -> "AuthenticationRequired"
          [] OTHER -> "Exception"

\* What get_bridge can return or raise for a username, over all the
\* outcomes of the two device calls.
get_bridge_results(username) ==
    {get_bridge(username, create_user, initialize) :
         create_user \in DeviceOutcomes, initialize \in DeviceOutcomes}

\* A call of get_bridge for a host before it has started: the device calls
\* it has made, what the last of them raised ("ok" when it returned) and
\* what get_bridge returned or raised.
new_bridge_call ==
    [pc |-> "idle", username |-> NoUsername, calls |-> <<>>,
     raised |-> "none", result |-> "none"]

\* get_bridge(hass, host, username) up to its first await: create_user
\* when "not username", initialize otherwise.
get_bridge_call(h, username) ==
    /\ UNCHANGED <<session_vars, flow_vars, scene_vars, normalize_calls>>
    /\ bridge_calls[h].pc \in {"idle", "done"}
    /\ bridge_calls' =
           [bridge_calls EXCEPT
                ![h] = [new_bridge_call EXCEPT
                            !.username = username,
                            !.pc = IF username = NoUsername
                                   THEN "create_user" ELSE "initialize"]]

\* "await bridge.create_user(...)" ends: outcome is "ok" or what it raised,
\* the timeout of 10 seconds included.
get_bridge_create_user_return(h, outcome) ==
    /\ UNCHANGED <<session_vars, flow_vars, scene_vars, normalize_calls>>
    /\ bridge_calls[h].pc = "create_user"
    /\ bridge_calls' =
           [bridge_calls EXCEPT
                ![h] = IF outcome = "ok"
                       THEN [@ EXCEPT !.calls = Append(@, "create_user"),
                                      !.pc = "initialize"]
                       ELSE [@ EXCEPT
                                 !.calls = Append(@, "create_user"),
                                 !.pc = "done",
                                 !.raised = outcome,
                                 !.result = get_bridge(bridge_calls[h].username,
                                                       outcome, "ok")]]

\* "await bridge.initialize()" ends, and get_bridge returns the bridge or
\* raises.
get_bridge_initialize_return(h, outcome) ==
    /\ UNCHANGED <<session_vars, flow_vars, scene_vars, normalize_calls>>
    /\ bridge_calls[h].pc = "initialize"
    /\ bridge_calls' =
           [bridge_calls EXCEPT
                ![h] = [@ EXCEPT
                            !.calls = Append(@, "initialize"),
                            !.pc = "done",
                            !.raised = outcome,
                            !.result = get_bridge(bridge_calls[h].username,
                                                  "ok", outcome)]]

\* HueBridge.__init__
InitSession ==
    /\ setup_state = [s \in Sessions |-> "new"]
    /\ bridge_error = [s \in Sessions |-> "none"]
    /\ api = [s \in Sessions |-> None]
    /\ authorized = [s \in Sessions |-> FALSE]
    /\ parallel_updates_semaphore = [s \in Sessions |-> None]
    /\ forwarded = [s \in Sessions |-> [p \in Platforms |-> "none"]]
    /\ services = None
    /\ created_flows = [s \in Sessions |-> <<>>]
    /\ waiting = [s \in Sessions |-> 0]
    /\ running = [s \in Sessions |-> 0]
    /\ outcomes = [s \in Sessions |-> {}]
    /\ reset_state = [s \in Sessions |-> "idle"]
    /\ unload_results = [s \in Sessions |-> None]
    /\ unauthorized_calls = [s \in Sessions |-> 0]

\* async_setup up to "await get_bridge(...)".  The host platform sets a
\* session object up once (a retry constructs a new object).
async_setup_call(s) ==
    /\ UNCHANGED <<flow_vars, scene_vars, pure_vars>>
    /\ setup_state[s] = "new"
    /\ setup_state' = [setup_state EXCEPT ![s] = "authenticating"]
    /\ UNCHANGED <<bridge_error, api, authorized, parallel_updates_semaphore,
                   forwarded, services, created_flows, waiting, running,
                   outcomes, reset_state, unload_results, unauthorized_calls>>

\* The budget of the gate, from the device model.
semaphore_value(modelid) == IF modelid = "BSB001" THEN 3 ELSE 10

\* Mutant of async_setup_resume: the platforms are forwarded before the
\* result of get_bridge is looked at, and a lost connection returns False.
async_setup_resume_early_forward(s, result, modelid) ==
    /\ UNCHANGED <<flow_vars, scene_vars, pure_vars>>
    /\ setup_state[s] = "authenticating"
    /\ forwarded' = [forwarded EXCEPT ![s] = [p \in Platforms |-> "scheduled"]]
    /\ IF result = "ok"
       THEN /\ api' = [api EXCEPT ![s] = Some(Bridge(modelid))]
            /\ services' = Some(s)
            /\ parallel_updates_semaphore' =
                   [parallel_updates_semaphore EXCEPT
                        ![s] = Some(IF modelid = "BSB001" THEN 3 ELSE 10)]
            /\ authorized' = [authorized EXCEPT ![s] = TRUE]
            /\ setup_state' = [setup_state EXCEPT ![s] = "True"]
            /\ UNCHANGED <<bridge_error, created_flows>>
       ELSE /\ setup_state' = [setup_state EXCEPT ![s] = "False"]
            /\ bridge_error' = [bridge_error EXCEPT ![s] = result]
            /\ created_flows' =
                   [created_flows EXCEPT
                        ![s] = IF result = "AuthenticationRequired"
                               THEN Append(@, host(s)) ELSE @]
            /\ UNCHANGED <<api, authorized, parallel_updates_semaphore,
                           services>>
    /\ UNCHANGED <<waiting, running, outcomes, reset_state, unload_results,
                   unauthorized_calls>>

\* Mutant of async_setup_resume: the gate is left to a later step, after
\* the platforms are scheduled and authorized is set.
async_setup_resume_gate_later(s, result, modelid) ==
    /\ UNCHANGED <<flow_vars, scene_vars, pure_vars>>
    /\ setup_state[s] = "authenticating"
    /\ CASE result = "AuthenticationRequired" ->
              /\ created_flows' =
                     [created_flows EXCEPT ![s] = Append(@, host(s))]
              /\ setup_state' = [setup_state EXCEPT ![s] = "False"]
              /\ bridge_error' = [bridge_error EXCEPT ![s] = result]
              /\ UNCHANGED <<api, authorized, forwarded, services>>
         [] result = "CannotConnect" ->
              /\ setup_state' =
                     [setup_state EXCEPT ![s] = "ConfigEntryNotReady"]
              /\ bridge_error' = [bridge_error EXCEPT ![s] = result]
              /\ UNCHANGED <<api, authorized, forwarded, services,
                             created_flows>>
         [] result = "Exception" ->
              /\ setup_state' = [setup_state EXCEPT ![s] = "False"]
              /\ bridge_error' = [bridge_error EXCEPT ![s] = result]
              /\ UNCHANGED <<api, authorized, forwarded, services,
                             created_flows>>
         [] OTHER ->
              /\ api' = [api EXCEPT ![s] = Some(Bridge(modelid))]
              /\ forwarded' =
                     [forwarded EXCEPT ![s] = [p \in Platforms |-> "scheduled"]]
              /\ services' = Some(s)
              /\ authorized' = [authorized EXCEPT ![s] = TRUE]
              /\ setup_state' = [setup_state EXCEPT ![s] = "True"]
              /\ UNCHANGED <<bridge_error, created_flows>>
    /\ UNCHANGED <<parallel_updates_semaphore, waiting, running, outcomes,
                   reset_state, unload_results, unauthorized_calls>>

\* async_setup from the return of get_bridge to its own return: no await.
async_setup_resume(s, result, modelid) ==
    /\ UNCHANGED <<flow_vars, scene_vars, pure_vars>>
    /\ setup_state[s] = "authenticating"
    /\ CASE result = "AuthenticationRequired" ->
              /\ created_flows' =
                     [created_flows EXCEPT ![s] = Append(@, host(s))]
              /\ setup_state' = [setup_state EXCEPT ![s] = "False"]
              /\ bridge_error' = [bridge_error EXCEPT ![s] = result]
              /\ UNCHANGED <<api, authorized, parallel_updates_semaphore,
                             forwarded, services>>
         [] result = "CannotConnect" ->
              /\ setup_state' =
                     [setup_state EXCEPT ![s] = "ConfigEntryNotReady"]
              /\ bridge_error' = [bridge_error EXCEPT ![s] = result]
              /\ UNCHANGED <<api, authorized, parallel_updates_semaphore,
                             forwarded, services, created_flows>>
         [] result = "Exception" ->
              /\ setup_state' = [setup_state EXCEPT ![s] = "False"]
              /\ bridge_error' = [bridge_error EXCEPT ![s] = result]
              /\ UNCHANGED <<api, authorized, parallel_updates_semaphore,
                             forwarded, services, created_flows>>
         [] OTHER ->
              /\ api' = [api EXCEPT ![s] = Some(Bridge(modelid))]
              /\ forwarded' =
                     [forwarded EXCEPT ![s] = [p \in Platforms |-> "scheduled"]]
              /\ services' = Some(s)
              /\ parallel_updates_semaphore' =
                     [parallel_updates_semaphore EXCEPT
                          ![s] = Some(semaphore_value(modelid))]
              /\ authorized' = [authorized EXCEPT ![s] = TRUE]
              /\ setup_state' = [setup_state EXCEPT ![s] = "True"]
              /\ UNCHANGED <<bridge_error, created_flows>>
    /\ UNCHANGED <<waiting, running, outcomes, reset_state, unload_results,
                   unauthorized_calls>>

\* The device's answer to the get_bridge of async_setup.
async_setup_return(s) ==
    \E result \in get_bridge_results(config_entry(s).username),
       modelid \in ModelIds :
        async_setup_resume(s, result, modelid)

\* The event loop runs a task that async_setup created for a platform.
forward_entry_setup(s, p) ==
    /\ UNCHANGED <<flow_vars, scene_vars, pure_vars>>
    /\ forwarded[s][p] = "scheduled"
    /\ forwarded' = [forwarded EXCEPT ![s][p] = "running"]
    /\ UNCHANGED <<setup_state, bridge_error, api, authorized,
                   parallel_updates_semaphore, services, created_flows,
                   waiting, running, outcomes, reset_state, unload_results,
                   unauthorized_calls>>

\* The callers of async_request_call are the platforms of the session.
platform_running(s) == \E p \in Platforms : forwarded[s][p] = "running"

\* Mutant of async_request_call_enter: "return await coro" without the
\* "async with".
async_request_call_enter_ungated(s) ==
    /\ UNCHANGED <<flow_vars, scene_vars, pure_vars>>
    /\ parallel_updates_semaphore[s] # None
    /\ running' = [running EXCEPT ![s] = @ + 1]
    /\ UNCHANGED <<setup_state, bridge_error, api, authorized,
                   parallel_updates_semaphore, forwarded, services,
                   created_flows, waiting, outcomes, reset_state,
                   unload_results, unauthorized_calls>>

\* async_request_call up to the end of the semaphore's __aenter__: acquire
\* takes a slot when _value > 0 and suspends the caller otherwise.
async_request_call_enter(s) ==
    /\ UNCHANGED <<flow_vars, scene_vars, pure_vars>>
    /\ parallel_updates_semaphore[s] # None
    /\ IF parallel_updates_semaphore[s][1] > 0
       THEN /\ parallel_updates_semaphore' =
                   [parallel_updates_semaphore EXCEPT ![s] = Some(@[1] - 1)]
            /\ running' = [running EXCEPT ![s] = @ + 1]
            /\ UNCHANGED waiting
       ELSE /\ waiting' = [waiting EXCEPT ![s] = @ + 1]
            /\ UNCHANGED <<parallel_updates_semaphore, running>>
    /\ UNCHANGED <<setup_state, bridge_error, api, authorized, forwarded,
                   services, created_flows, outcomes, reset_state,
                   unload_results, unauthorized_calls>>

\* A suspended caller is woken after a release and takes the slot.
async_request_call_acquired(s) ==
    /\ UNCHANGED <<flow_vars, scene_vars, pure_vars>>
    /\ waiting[s] > 0
    /\ parallel_updates_semaphore[s] # None
    /\ parallel_updates_semaphore[s][1] > 0
    /\ parallel_updates_semaphore' =
           [parallel_updates_semaphore EXCEPT ![s] = Some(@[1] - 1)]
    /\ waiting' = [waiting EXCEPT ![s] = @ - 1]
    /\ running' = [running EXCEPT ![s] = @ + 1]
    /\ UNCHANGED <<setup_state, bridge_error, api, authorized, forwarded,
                   services, created_flows, outcomes, reset_state,
                   unload_results, unauthorized_calls>>

\* Mutant of async_request_call_exit: acquire and release written out with
\* no try/finally, so that a raising call keeps its slot.
async_request_call_exit_leak(s, outcome) ==
    /\ UNCHANGED <<flow_vars, scene_vars, pure_vars>>
    /\ running[s] > 0
    /\ running' = [running EXCEPT ![s] = @ - 1]
    /\ parallel_updates_semaphore' =
           [parallel_updates_semaphore EXCEPT
                ![s] = IF outcome = "returned" THEN Some(@[1] + 1) ELSE @]
    /\ outcomes' = [outcomes EXCEPT ![s] = @ \cup {outcome}]
    /\ UNCHANGED <<setup_state, bridge_error, api, authorized, forwarded,
                   services, created_flows, waiting, reset_state,
                   unload_results, unauthorized_calls>>

\* "return await coro" ends, with outcome "returned" or "raised"; the
\* "async with" releases the slot on both ways out.
async_request_call_exit(s, outcome) ==
    /\ UNCHANGED <<flow_vars, scene_vars, pure_vars>>
    /\ running[s] > 0
    /\ running' = [running EXCEPT ![s] = @ - 1]
    /\ parallel_updates_semaphore' =
           [parallel_updates_semaphore EXCEPT ![s] = Some(@[1] + 1)]
    /\ outcomes' = [outcomes EXCEPT ![s] = @ \cup {outcome}]
    /\ UNCHANGED <<setup_state, bridge_error, api, authorized, forwarded,
                   services, created_flows, waiting, reset_state,
                   unload_results, unauthorized_calls>>

\* Mutant of async_reset_call: the teardown drops the gate of the session
\* with the service.
async_reset_call_drop_gate(s) ==
    /\ UNCHANGED <<flow_vars, scene_vars, pure_vars>>
    /\ reset_state[s] = "idle"
    /\ IF api[s] = None
       THEN /\ reset_state' = [reset_state EXCEPT ![s] = "True"]
            /\ UNCHANGED <<services, parallel_updates_semaphore>>
       ELSE /\ services' = None
            /\ parallel_updates_semaphore' =
                   [parallel_updates_semaphore EXCEPT ![s] = None]
            /\ reset_state' = [reset_state EXCEPT ![s] = "unloading"]
    /\ UNCHANGED <<setup_state, bridge_error, api, authorized, forwarded,
                   created_flows, waiting, running, outcomes, unload_results,
                   unauthorized_calls>>

\* async_reset up to "await asyncio.gather(...)"; with no api it returns.
\* The host platform unloads an entry, and so resets its session, once.
async_reset_call(s) ==
    /\ UNCHANGED <<flow_vars, scene_vars, pure_vars>>
    /\ reset_state[s] = "idle"
    /\ IF api[s] = None
       THEN /\ reset_state' = [reset_state EXCEPT ![s] = "True"]
            /\ UNCHANGED services
       ELSE /\ services' = None
            /\ reset_state' = [reset_state EXCEPT ![s] = "unloading"]
    /\ UNCHANGED <<setup_state, bridge_error, api, authorized,
                   parallel_updates_semaphore, forwarded, created_flows,
                   waiting, running, outcomes, unload_results,
                   unauthorized_calls>>

\* Mutant of async_reset_return: "return all(results)", which takes the None
\* of a platform that had nothing to unload for a failure.
async_reset_return_all(s, results) ==
    /\ UNCHANGED <<flow_vars, scene_vars, pure_vars>>
    /\ reset_state[s] = "unloading"
    /\ unload_results' = [unload_results EXCEPT ![s] = Some(results)]
    /\ reset_state' =
           [reset_state EXCEPT
                ![s] = IF \A p \in Platforms : results[p] = "True"
                       THEN "True" ELSE "False"]
    /\ forwarded' =
           [forwarded EXCEPT
                ![s] = [p \in Platforms |->
                            IF results[p] = "True" THEN "unloaded" ELSE @[p]]]
    /\ UNCHANGED <<setup_state, bridge_error, api, authorized,
                   parallel_updates_semaphore, services, created_flows,
                   waiting, running, outcomes, unauthorized_calls>>

\* async_reset after the gather: results are what the three unloads returned.
async_reset_return(s, results) ==
    /\ UNCHANGED <<flow_vars, scene_vars, pure_vars>>
    /\ reset_state[s] = "unloading"
    /\ unload_results' = [unload_results EXCEPT ![s] = Some(results)]
    /\ reset_state' =
           [reset_state EXCEPT
                ![s] = IF \E p \in Platforms : results[p] = "False"
                       THEN "False" ELSE "True"]
    /\ forwarded' =
           [forwarded EXCEPT
                ![s] = [p \in Platforms |->
                            IF results[p] = "True" THEN "unloaded" ELSE @[p]]]
    /\ UNCHANGED <<setup_state, bridge_error, api, authorized,
                   parallel_updates_semaphore, services, created_flows,
                   waiting, running, outcomes, unauthorized_calls>>

\* Mutant of handle_unauthorized_error: no early return for a session that
\* is unauthorized already.
handle_unauthorized_error_repeat(s) ==
    /\ UNCHANGED <<flow_vars, scene_vars, pure_vars>>
    /\ unauthorized_calls' = [unauthorized_calls EXCEPT ![s] = @ + 1]
    /\ authorized' = [authorized EXCEPT ![s] = FALSE]
    /\ created_flows' = [created_flows EXCEPT ![s] = Append(@, host(s))]
    /\ UNCHANGED <<setup_state, bridge_error, api,
                   parallel_updates_semaphore, forwarded, services, waiting,
                   running, outcomes, reset_state, unload_results>>

\* Mutant of handle_unauthorized_error: the flag is flipped and the flow
\* created without the early return.
handle_unauthorized_error_toggle(s) ==
    /\ UNCHANGED <<flow_vars, scene_vars, pure_vars>>
    /\ unauthorized_calls' = [unauthorized_calls EXCEPT ![s] = @ + 1]
    /\ authorized' = [authorized EXCEPT ![s] = ~@]
    /\ created_flows' = [created_flows EXCEPT ![s] = Append(@, host(s))]
    /\ UNCHANGED <<setup_state, bridge_error, api,
                   parallel_updates_semaphore, forwarded, services, waiting,
                   running, outcomes, reset_state, unload_results>>

\* handle_unauthorized_error: no await, so calls never interleave.
\* Its callers are the platforms of the session, on an Unauthorized answer.
handle_unauthorized_error(s) ==
    /\ UNCHANGED <<flow_vars, scene_vars, pure_vars>>
    /\ unauthorized_calls' = [unauthorized_calls EXCEPT ![s] = @ + 1]
    /\ IF ~authorized[s]
       THEN UNCHANGED <<authorized, created_flows>>
       ELSE /\ authorized' = [authorized EXCEPT ![s] = FALSE]
            /\ created_flows' =
                   [created_flows EXCEPT ![s] = Append(@, host(s))]
    /\ UNCHANGED <<setup_state, bridge_error, api,
                   parallel_updates_semaphore, forwarded, services, waiting,
                   running, outcomes, reset_state, unload_results>>

-----------------------------------------------------------------------------
(* bridge.py: hue_activate_scene *)

\* The state of the session's service handler before any call, and the
\* record of a call: its arguments, the refreshes and resolution attempts
\* it made, how the first attempt ended, how the call ended, and the group
\* and scene of the set_action it issued.
new_scene_log ==
    [group_name |-> "none", scene_name |-> "none", refreshes |-> 0,
     attempts |-> 0, first |-> "none", result |-> "none", applied |-> None]

InitScene ==
    /\ device_groups = <<>>
    /\ device_scenes = <<>>
    /\ activate = [s \in Sessions |-> None]
    /\ scene_log = [s \in Sessions |-> new_scene_log]

\* sorted(lights)
RECURSIVE insort(_, _)
insort(x, lights) ==
    IF lights = <<>> THEN <<x>>
    ELSE IF x <= Head(lights) THEN <<x>> \o lights
    ELSE <<Head(lights)>> \o insort(x, Tail(lights))

RECURSIVE sorted(_)
sorted(lights) ==
    IF lights = <<>> THEN <<>> ELSE insort(Head(lights), sorted(Tail(lights)))

\* next(..., None) over the values of a dict, which come in the order of
\* the ids: the first id among the matching ones.
first_of(ids) ==
    IF ids = {} THEN None
    ELSE Some(CHOOSE i \in ids : \A j \in ids : i <= j)

\* group = next((group for group in self.api.groups.values()
\*               if group.name == group_name), None)
find_group(bridge, group_name) ==
    first_of({i \in DOMAIN bridge.groups :
                  bridge.groups[i].name = group_name})

\* Mutant of find_scene: the scene is looked up by its name alone.
find_scene_by_name(bridge, scene_name, group) ==
    first_of({i \in DOMAIN bridge.scenes :
                  /\ bridge.scenes[i].name = scene_name
                  /\ group # None})

\* scene = next((scene for scene in self.api.scenes.values()
\*               if scene.name == scene_name and group is not None
\*               and sorted(scene.lights) == sorted(group.lights)), None)
find_scene(bridge, scene_name, group) ==
    first_of({i \in DOMAIN bridge.scenes :
                  /\ bridge.scenes[i].name = scene_name
                  /\ group # None
                  /\ sorted(bridge.scenes[i].lights) =
                         sorted(bridge.groups[group[1]].lights)})

\* Mutant of hue_activate_scene: "if not updated:", a refresh on every
\* first attempt.
hue_activate_scene_always_refresh(s, call, updated, bridge, log) ==
    LET group == find_group(bridge, call.group_name)
        scene == find_scene(bridge, call.scene_name, group)
        unresolved == group = None \/ scene = None
        tried == [log EXCEPT !.attempts = @ + 1,
                             !.first = IF updated THEN @
                                       ELSE IF unresolved THEN "unresolved"
                                       ELSE "resolved"]
    IN  IF ~updated
        THEN /\ activate' =
                    [activate EXCEPT
                         ![s] = Some([call EXCEPT !.pc = "groups_update"])]
             /\ scene_log' =
                    [scene_log EXCEPT
                         ![s] = [tried EXCEPT !.refreshes = @ + 1]]
        ELSE IF unresolved
        THEN /\ activate' = [activate EXCEPT ![s] = None]
             /\ scene_log' =
                    [scene_log EXCEPT
                         ![s] = [tried EXCEPT
                                     !.result = IF group = None
                                                THEN "no_group"
                                                ELSE "no_scene"]]
        ELSE /\ activate' =
                    [activate EXCEPT
                         ![s] = Some([call EXCEPT !.pc = "set_action"])]
             /\ scene_log' =
                    [scene_log EXCEPT
                         ![s] = [tried EXCEPT
                                     !.applied =
                                         Some([group |->
                                                   bridge.groups[group[1]],
                                               scene |->
                                                   bridge.scenes[scene[1]]])]]

\* hue_activate_scene(call, updated) up to its first await or its return:
\* bridge is self.api and log the record of the call so far.  It resolves
\* the group and the scene; unresolved and not updated, it goes to refresh;
\* unresolved after the refresh, it warns and returns; resolved, it calls
\* group.set_action(scene=scene.id).
hue_activate_scene(s, call, updated, bridge, log) ==
    LET group == find_group(bridge, call.group_name)
        scene == find_scene(bridge, call.scene_name, group)
        unresolved == group = None \/ scene = None
        tried == [log EXCEPT !.attempts = @ + 1,
                             !.first = IF updated THEN @
                                       ELSE IF unresolved THEN "unresolved"
                                       ELSE "resolved"]
    IN  IF ~updated /\ unresolved
        THEN /\ activate' =
                    [activate EXCEPT
                         ![s] = Some([call EXCEPT !.pc = "groups_update"])]
             /\ scene_log' =
                    [scene_log EXCEPT
                         ![s] = [tried EXCEPT !.refreshes = @ + 1]]
        ELSE IF group = None
        THEN /\ activate' = [activate EXCEPT ![s] = None]
             /\ scene_log' =
                    [scene_log EXCEPT
                         ![s] = [tried EXCEPT !.result = "no_group"]]
        ELSE IF scene = None
        THEN /\ activate' = [activate EXCEPT ![s] = None]
             /\ scene_log' =
                    [scene_log EXCEPT
                         ![s] = [tried EXCEPT !.result = "no_scene"]]
        ELSE /\ activate' =
                    [activate EXCEPT
                         ![s] = Some([call EXCEPT !.pc = "set_action"])]
             /\ scene_log' =
                    [scene_log EXCEPT
                         ![s] = [tried EXCEPT
                                     !.applied =
                                         Some([group |->
                                                   bridge.groups[group[1]],
                                               scene |->
                                                   bridge.scenes[scene[1]]])]]

\* The service registry dispatches hue.hue_activate_scene to the handler
\* registered last: the call of hue_activate_scene(call), updated False.
hue_activate_scene_call(s, group_name, scene_name) ==
    /\ UNCHANGED <<flow_vars, pure_vars>>
    /\ services = Some(s)
    /\ activate[s] = None
    /\ hue_activate_scene(
           s, [group_name |-> group_name, scene_name |-> scene_name,
               pc |-> "call"],
           FALSE, api[s][1],
           [new_scene_log EXCEPT !.group_name = group_name,
                                 !.scene_name = scene_name])
    /\ UNCHANGED <<session_vars, device_groups, device_scenes>>

\* "await self.api.groups.update()" ends: the groups are those of the
\* device now, or the request raised and the exception leaves the handler.
groups_update_return(s, outcome) ==
    /\ UNCHANGED <<flow_vars, pure_vars>>
    /\ activate[s] # None
    /\ activate[s][1].pc = "groups_update"
    /\ IF outcome = "ok"
       THEN /\ api' = [api EXCEPT ![s] = Some([@[1] EXCEPT
                                                   !.groups = device_groups])]
            /\ activate' = [activate EXCEPT
                                ![s] = Some([@[1] EXCEPT
                                                 !.pc = "scenes_update"])]
            /\ UNCHANGED scene_log
       ELSE /\ activate' = [activate EXCEPT ![s] = None]
            /\ scene_log' = [scene_log EXCEPT ![s].result = "raised"]
            /\ UNCHANGED api
    /\ UNCHANGED <<setup_state, bridge_error, authorized,
                   parallel_updates_semaphore, forwarded, services,
                   created_flows, waiting, running, outcomes, reset_state,
                   unload_results, unauthorized_calls, device_groups,
                   device_scenes>>

\* "await self.api.scenes.update()" ends, and with it the refresh: the
\* handler calls itself with updated True, which runs up to its await or
\* return with no suspension in between.
scenes_update_return(s, outcome) ==
    /\ UNCHANGED <<flow_vars, pure_vars>>
    /\ activate[s] # None
    /\ activate[s][1].pc = "scenes_update"
    /\ IF outcome = "ok"
       THEN /\ api' = [api EXCEPT ![s] = Some([@[1] EXCEPT
                                                   !.scenes = device_scenes])]
            /\ hue_activate_scene(s, activate[s][1], TRUE, api'[s][1],
                                  scene_log[s])
       ELSE /\ activate' = [activate EXCEPT ![s] = None]
            /\ scene_log' = [scene_log EXCEPT ![s].result = "raised"]
            /\ UNCHANGED api
    /\ UNCHANGED <<setup_state, bridge_error, authorized,
                   parallel_updates_semaphore, forwarded, services,
                   created_flows, waiting, running, outcomes, reset_state,
                   unload_results, unauthorized_calls, device_groups,
                   device_scenes>>

\* "await group.set_action(scene=scene.id)" ends and the handler returns,
\* or raises what the request raised.
set_action_return(s, outcome) ==
    /\ UNCHANGED <<flow_vars, pure_vars>>
    /\ activate[s] # None
    /\ activate[s][1].pc = "set_action"
    /\ activate' = [activate EXCEPT ![s] = None]
    /\ scene_log' = [scene_log EXCEPT
                         ![s].result = IF outcome = "ok" THEN "set_action"
                                       ELSE "raised"]
    /\ UNCHANGED <<session_vars, device_groups, device_scenes>>

\* The device: a group or a scene is added to it (with the app of the
\* vendor).  Group names are unique on the device, scene names are not.
device_add_group(group) ==
    /\ UNCHANGED <<flow_vars, pure_vars, session_vars>>
    /\ Len(device_groups) < MaxGroups
    /\ \A i \in DOMAIN device_groups : device_groups[i].name # group.name
    /\ device_groups' = Append(device_groups, group)
    /\ UNCHANGED <<device_scenes, activate, scene_log>>

device_add_scene(scene) ==
    /\ UNCHANGED <<flow_vars, pure_vars, session_vars>>
    /\ Len(device_scenes) < MaxScenes
    /\ device_scenes' = Append(device_scenes, scene)
    /\ UNCHANGED <<device_groups, activate, scene_log>>

-----------------------------------------------------------------------------
(* bridge.py: normalize_bridge_id *)

\* Mutant of normalize_bridge_id: only the 12 characters are left alone,
\* every other identifier is cut to its first and last six.
normalize_bridge_id_cut_all(bridge_id) ==
    IF Len(bridge_id) = 12
    THEN bridge_id
    ELSE SubSeq(bridge_id, 1, IF Len(bridge_id) < 6 THEN Len(bridge_id) ELSE 6)
             \o SubSeq(bridge_id,
                       IF Len(bridge_id) < 6 THEN 1 ELSE Len(bridge_id) - 5,
                       Len(bridge_id))

\* bridge_id[0:6] + bridge_id[-6:] for 16 characters, the identifier itself
\* for 12 and, after a warning, for every other length.
normalize_bridge_id(bridge_id) ==
    IF Len(bridge_id) = 16
    THEN SubSeq(bridge_id, 1, 6)
             \o SubSeq(bridge_id, Len(bridge_id) - 5, Len(bridge_id))
    ELSE bridge_id

\* The identifiers normalize_bridge_id is called with: those of the two
\* bridges in their three formats, and strings of every length up to
\* MaxIdLen over the characters of an identifier.
IdChars == <<"0", "1", "7", "8", "a", "c", "e", "f">>

Identifier(n, k) == [i \in 1..n |-> IdChars[((i * k) % Len(IdChars)) + 1]]

Identifiers ==
    BridgeIds \cup Serials \cup HomekitIds
        \cup {Identifier(n, k) : n \in 0..MaxIdLen, k \in {1, 3, 5}}

\* No call of normalize_bridge_id yet.
new_normalize_call == [bridge_id |-> None, returned |-> None, again |-> None]

InitPure ==
    /\ bridge_calls = [h \in Hosts |-> new_bridge_call]
    /\ normalize_calls = new_normalize_call

\* normalize_bridge_id(bridge_id)
normalize_call(bridge_id) ==
    /\ UNCHANGED <<session_vars, flow_vars, scene_vars, bridge_calls>>
    /\ normalize_calls' =
           [new_normalize_call EXCEPT
                !.bridge_id = Some(bridge_id),
                !.returned = Some(normalize_bridge_id(bridge_id))]

\* normalize_bridge_id of what the call before returned
normalize_again ==
    /\ UNCHANGED <<session_vars, flow_vars, scene_vars, bridge_calls>>
    /\ normalize_calls.returned # None
    /\ normalize_calls.again = None
    /\ normalize_calls' =
           [normalize_calls EXCEPT
                !.again = Some(normalize_bridge_id(normalize_calls.returned[1]))]

-----------------------------------------------------------------------------
(* config_flow.py *)

\* str.replace(":", "") of async_step_homekit
RECURSIVE remove_colons(_)
remove_colons(id) ==
    IF id = <<>> THEN <<>>
    ELSE IF Head(id) = ":" THEN remove_colons(Tail(id))
    ELSE <<Head(id)>> \o remove_colons(Tail(id))

\* HueFlowHandler.__init__, with the context the flow manager gives it.
\* step is where the flow is: "new" before its first step, at an await
\* ("discover", "get_bridge_link", "get_bridge_import"), or the result it
\* returned ("form_init", "form_link", "abort", "create_entry").
new_flow ==
    [step |-> "new", host |-> None, context_host |-> None,
     unique_id |-> None, user_input |-> FALSE, path |-> FALSE,
     options |-> {}, errors |-> "none", reason |-> "none"]

\* What is remembered of a flow for the properties: the answer of its
\* discovery (bridges), the hosts left after filtering (hosts), the result
\* of its last get_bridge, and whether it returned async_create_entry.
new_log ==
    [bridges |-> None, hosts |-> None, get_bridge |-> "none",
     created |-> FALSE]

InitFlow ==
    /\ flows = [f \in Flows |-> new_flow]
    /\ flow_log = [f \in Flows |-> new_log]
    /\ entries = {}

\* configured_hosts
configured_hosts == {e.data.host : e \in entries}

\* The flows the flow manager holds: started, and neither aborted nor
\* finished with an entry.
in_progress(f) == flows[f].step \notin {"new", "abort", "create_entry"}

\* ConfigFlow._async_in_progress: the other flows of this handler
_async_in_progress(f) == {g \in Flows \ {f} : in_progress(g)}

\* ConfigFlow.async_set_unique_id with raise_on_progress: it aborts the flow
\* when another flow in progress has this unique id.
async_set_unique_id_raises(f, unique_id) ==
    \E g \in _async_in_progress(f) : flows[g].unique_id = Some(unique_id)

\* The flow manager stores the entry of a finished flow, in the place of an
\* entry with the same unique id if there is one.
async_create_entry(data, unique_id) ==
    {e \in entries : e.unique_id # unique_id}
        \cup {[data |-> data, unique_id |-> unique_id]}

\* The network.  The ssdp serial number of the bridge that reports bridgeid.
serial_number(bridgeid) == IF bridgeid = BridgeIdA THEN SerialA ELSE SerialB

\* config.bridgeid of the bridge object get_bridge returns to flow f.  A
\* flow started by an advertisement is answered by the bridge that
\* advertised; the bridge found at the host of any other flow is either
\* one (a host's address may have passed from one bridge to the other since
\* an earlier flow).  When get_bridge raised there is no object, and no
\* identifier is looked at.
reported_bridgeids(f, result) ==
    IF result # "ok" THEN {BridgeIdA}
    ELSE {bridgeid \in BridgeIds :
              flows[f].unique_id \in {None, Some(serial_number(bridgeid))}}

\* self.async_abort(reason=...): the flow manager drops the flow object,
\* the result stays.
async_abort(fl, reason) == [new_flow EXCEPT !.step = "abort", !.reason = reason]

\* async_step_link up to "await get_bridge(self.hass, self.host, None)"
async_step_link(fl, user_input) ==
    [fl EXCEPT !.step = "get_bridge_link", !.user_input = user_input,
               !.errors = "none"]

\* async_step_user, async_step_init with no user input, up to
\* "await discover_nupnp(...)"
async_step_user(f) ==
    /\ UNCHANGED <<session_vars, scene_vars, pure_vars>>
    /\ flows[f].step = "new"
    /\ flows' = [flows EXCEPT ![f].step = "discover"]
    /\ UNCHANGED <<flow_log, entries>>

\* Mutant of async_step_init_resume: "if len(bridges) == 1", the bridges
\* counted before the configured hosts are filtered out.
async_step_init_resume_unfiltered(f, timeout, bridges) ==
    /\ UNCHANGED <<session_vars, scene_vars, pure_vars>>
    /\ flows[f].step = "discover"
    /\ LET fl == flows[f]
           hosts == {h \in bridges : h \notin configured_hosts}
       IN  IF timeout
           THEN /\ flows' = [flows EXCEPT
                                 ![f] = async_abort(fl, "discover_timeout")]
                /\ UNCHANGED flow_log
           ELSE /\ flow_log' =
                       [flow_log EXCEPT
                            ![f] = IF hosts = {} THEN @
                                   ELSE [@ EXCEPT !.bridges = Some(bridges),
                                                  !.hosts = Some(hosts)]]
                /\ flows' =
                       [flows EXCEPT
                            ![f] =
                                IF bridges = {}
                                THEN async_abort(fl, "no_bridges")
                                ELSE IF hosts = {}
                                THEN async_abort(fl, "all_configured")
                                ELSE IF Cardinality(bridges) = 1
                                THEN async_step_link(
                                         [fl EXCEPT
                                              !.host =
                                                  Some(CHOOSE h \in hosts :
                                                           TRUE)],
                                         FALSE)
                                ELSE [fl EXCEPT !.step = "form_init",
                                                !.options = hosts]]
    /\ UNCHANGED entries

\* async_step_init from the return of discover_nupnp: timeout tells that it
\* did not return in 5 seconds, bridges are the hosts it returned else (each
\* bridge once).
async_step_init_resume(f, timeout, bridges) ==
    /\ UNCHANGED <<session_vars, scene_vars, pure_vars>>
    /\ flows[f].step = "discover"
    /\ LET fl == flows[f]
           configured == configured_hosts
           hosts == {h \in bridges : h \notin configured}
       IN  IF timeout
           THEN /\ flows' = [flows EXCEPT
                                 ![f] = async_abort(fl, "discover_timeout")]
                /\ UNCHANGED flow_log
           ELSE /\ flow_log' =
                       [flow_log EXCEPT
                            ![f] = IF hosts = {} THEN @
                                   ELSE [@ EXCEPT !.bridges = Some(bridges),
                                                  !.hosts = Some(hosts)]]
                /\ flows' =
                       [flows EXCEPT
                            ![f] =
                                IF bridges = {}
                                THEN async_abort(fl, "no_bridges")
                                ELSE IF hosts = {}
                                THEN async_abort(fl, "all_configured")
                                ELSE IF Cardinality(hosts) = 1
                                THEN async_step_link(
                                         [fl EXCEPT
                                              !.host =
                                                  Some(CHOOSE h \in hosts :
                                                           TRUE)],
                                         FALSE)
                                ELSE [fl EXCEPT !.step = "form_init",
                                                !.options = hosts]]
    /\ UNCHANGED entries

\* async_step_init with the host the user chose in the form
async_step_init(f, user_input) ==
    /\ UNCHANGED <<session_vars, scene_vars, pure_vars>>
    /\ flows[f].step = "form_init"
    /\ user_input \in flows[f].options
    /\ flows' = [flows EXCEPT
                     ![f] = async_step_link(
                                [@ EXCEPT !.host = Some(user_input),
                                          !.context_host = Some(user_input),
                                          !.options = {}],
                                FALSE)]
    /\ flow_log' = [flow_log EXCEPT ![f] = new_log]
    /\ UNCHANGED entries

\* The user submits the link form: async_step_link with user input.
async_step_link_submit(f) ==
    /\ UNCHANGED <<session_vars, scene_vars, pure_vars>>
    /\ flows[f].step = "form_link"
    /\ flows' = [flows EXCEPT ![f] = async_step_link(@, TRUE)]
    /\ flow_log' = [flow_log EXCEPT ![f] = new_log]
    /\ UNCHANGED entries

\* _entry_from_bridge and the async_create_entry it returns: bridge is the
\* object get_bridge returned.  The flow manager stores the entry and drops
\* the flow object.
_entry_from_bridge(f, bridge) ==
    LET unique_id == IF flows[f].unique_id = None
                     THEN Some(normalize_bridge_id(bridge.bridgeid))
                     ELSE flows[f].unique_id
        data == [host |-> bridge.host, bridge_id |-> bridge.bridgeid,
                 username |-> bridge.username]
    IN  /\ flows' = [flows EXCEPT
                         ![f] = [new_flow EXCEPT !.step = "create_entry"]]
        /\ entries' = async_create_entry(data, unique_id[1])
        /\ flow_log' = [flow_log EXCEPT
                            ![f] = [new_log EXCEPT !.get_bridge = "ok",
                                                   !.created = TRUE]]

\* Mutant of async_step_link_resume: the errors are shown on the first
\* entry into the step too ("if user_input is None" left out).
async_step_link_resume_unsuppressed(f, result, bridgeid) ==
    /\ UNCHANGED <<session_vars, scene_vars, pure_vars>>
    /\ flows[f].step = "get_bridge_link"
    /\ IF result = "ok"
       THEN _entry_from_bridge(
                f, [host |-> flows[f].host[1], username |-> "created",
                    bridgeid |-> bridgeid])
       ELSE /\ flows' =
                   [flows EXCEPT
                        ![f].step = "form_link",
                        ![f].errors = IF result = "AuthenticationRequired"
                                      THEN "register_failed"
                                      ELSE "linking"]
            /\ flow_log' = [flow_log EXCEPT
                                ![f] = [new_log EXCEPT !.get_bridge = result]]
            /\ UNCHANGED entries

\* Mutant of async_step_link_resume: the registration of the host is stored
\* before the link succeeded, when the form is shown again.
async_step_link_resume_partial(f, result, bridgeid) ==
    /\ UNCHANGED <<session_vars, scene_vars, pure_vars>>
    /\ flows[f].step = "get_bridge_link"
    /\ IF result = "ok"
       THEN _entry_from_bridge(
                f, [host |-> flows[f].host[1], username |-> "created",
                    bridgeid |-> bridgeid])
       ELSE /\ flows' =
                   [flows EXCEPT
                        ![f].step = "form_link",
                        ![f].errors =
                            IF ~flows[f].user_input THEN "none"
                            ELSE IF result = "AuthenticationRequired"
                            THEN "register_failed"
                            ELSE "linking"]
            /\ flow_log' = [flow_log EXCEPT
                                ![f] = [new_log EXCEPT !.get_bridge = result]]
            /\ entries' =
                   async_create_entry(
                       [host |-> flows[f].host[1], bridge_id |-> bridgeid,
                        username |-> NoUsername],
                       normalize_bridge_id(bridgeid))

\* async_step_link from the return of get_bridge: result is what it
\* returned or raised, bridgeid the identifier the device reported.
async_step_link_resume(f, result, bridgeid) ==
    /\ UNCHANGED <<session_vars, scene_vars, pure_vars>>
    /\ flows[f].step = "get_bridge_link"
    /\ IF result = "ok"
       THEN _entry_from_bridge(
                f, [host |-> flows[f].host[1], username |-> "created",
                    bridgeid |-> bridgeid])
       ELSE LET errors == IF result = "AuthenticationRequired"
                          THEN "register_failed"
                          ELSE "linking"
            IN  /\ flows' =
                       [flows EXCEPT
                            ![f].step = "form_link",
                            ![f].errors = IF flows[f].user_input
                                          THEN errors ELSE "none"]
                /\ flow_log' = [flow_log EXCEPT
                                    ![f] = [new_log EXCEPT
                                                !.get_bridge = result]]
                /\ UNCHANGED entries

\* async_step_import up to its first await: the job that reads the
\* username from the file at path when import_info has a path, the call of
\* get_bridge when it has none.
async_step_import(fl, import_host, path) ==
    [fl EXCEPT !.context_host = Some(import_host), !.path = path,
               !.step = "get_bridge_import"]

\* A flow started with the import step: by the setup of the integration
\* for a host of its configuration (with a path), or by create_config_flow
\* (without).
async_step_import_call(f, import_host, path) ==
    /\ UNCHANGED <<session_vars, scene_vars, pure_vars>>
    /\ flows[f].step = "new"
    /\ flows' = [flows EXCEPT ![f] = async_step_import(@, import_host, path)]
    /\ UNCHANGED <<flow_log, entries>>

\* _find_username_from_config: None without a path; with one, None when
\* the file is missing or is no JSON, and the username in it otherwise.
\* found tells whether the file holds a username.
_find_username_from_config(path, found) ==
    IF path /\ found THEN "imported" ELSE NoUsername

\* Mutant of async_step_import_resume: no "except AuthenticationRequired"
\* clause, so that the broad "except Exception" aborts the flow.
async_step_import_resume_no_link(f, username, result, bridgeid) ==
    /\ UNCHANGED <<session_vars, scene_vars, pure_vars>>
    /\ flows[f].step = "get_bridge_import"
    /\ LET fl == flows[f]
           import_host == fl.context_host[1]
       IN  CASE result = "ok" ->
                  _entry_from_bridge(
                      f, [host |-> import_host,
                          username |-> IF username = NoUsername
                                       THEN "created" ELSE username,
                          bridgeid |-> bridgeid])
             [] result = "CannotConnect" ->
                  /\ flows' = [flows EXCEPT
                                   ![f] = async_abort(fl, "cannot_connect")]
                  /\ flow_log' = [flow_log EXCEPT ![f].get_bridge = result]
                  /\ UNCHANGED entries
             [] OTHER ->
                  /\ flows' = [flows EXCEPT ![f] = async_abort(fl, "unknown")]
                  /\ flow_log' = [flow_log EXCEPT ![f].get_bridge = result]
                  /\ UNCHANGED entries

\* async_step_import from the return of get_bridge(hass, host, username)
async_step_import_resume(f, username, result, bridgeid) ==
    /\ UNCHANGED <<session_vars, scene_vars, pure_vars>>
    /\ flows[f].step = "get_bridge_import"
    /\ LET fl == flows[f]
           import_host == fl.context_host[1]
       IN  CASE result = "ok" ->
                  _entry_from_bridge(
                      f, [host |-> import_host,
                          username |-> IF username = NoUsername
                                       THEN "created" ELSE username,
                          bridgeid |-> bridgeid])
             [] result = "AuthenticationRequired" ->
                  /\ flows' =
                         [flows EXCEPT
                              ![f] = async_step_link(
                                         [fl EXCEPT
                                              !.host = Some(import_host),
                                              !.path = FALSE],
                                         FALSE)]
                  /\ flow_log' = [flow_log EXCEPT ![f].get_bridge = result]
                  /\ UNCHANGED entries
             [] result = "CannotConnect" ->
                  /\ flows' = [flows EXCEPT
                                   ![f] = async_abort(fl, "cannot_connect")]
                  /\ flow_log' = [flow_log EXCEPT ![f].get_bridge = result]
                  /\ UNCHANGED entries
             [] OTHER ->
                  /\ flows' = [flows EXCEPT ![f] = async_abort(fl, "unknown")]
                  /\ flow_log' = [flow_log EXCEPT ![f].get_bridge = result]
                  /\ UNCHANGED entries

\* The part async_step_ssdp and async_step_homekit share: the host goes to
\* the context, the flow is aborted for a host in progress or configured,
\* the normalized identifier becomes the unique id, and the import step is
\* entered.
discovered(f, fl, discovered_host, bridge_id, path) ==
    LET found == [fl EXCEPT !.context_host = Some(discovered_host)]
        unique_id == normalize_bridge_id(bridge_id)
    IN  IF \E g \in _async_in_progress(f) :
               flows[g].context_host = Some(discovered_host)
        THEN async_abort(found, "already_in_progress")
        ELSE IF discovered_host \in configured_hosts
        THEN async_abort(found, "already_configured")
        ELSE IF async_set_unique_id_raises(f, unique_id)
        THEN async_abort(found, "already_in_progress")
        ELSE async_step_import(
                 [found EXCEPT !.unique_id = Some(unique_id)],
                 discovered_host, path)

\* async_step_ssdp up to the await of the import step.  The name of the
\* advertisement is one of Names (the code looks for an ignored name inside
\* it).
async_step_ssdp(f, manufacturerURL, name, discovered_host, serial) ==
    /\ UNCHANGED <<session_vars, scene_vars, pure_vars>>
    /\ flows[f].step = "new"
    /\ flows' =
           [flows EXCEPT
                ![f] = IF manufacturerURL # HUE_MANUFACTURERURL
                       THEN async_abort(@, "not_hue_bridge")
                       ELSE IF name \in HUE_IGNORED_BRIDGE_NAMES
                       THEN async_abort(@, "not_hue_bridge")
                       ELSE discovered(f, @, discovered_host, serial, TRUE)]
    /\ UNCHANGED <<flow_log, entries>>

\* async_step_homekit up to the await of the import step (no path)
async_step_homekit(f, discovered_host, id) ==
    /\ UNCHANGED <<session_vars, scene_vars, pure_vars>>
    /\ flows[f].step = "new"
    /\ flows' =
           [flows EXCEPT
                ![f] = discovered(f, @, discovered_host, remove_colons(id),
                                  FALSE)]
    /\ UNCHANGED <<flow_log, entries>>

-----------------------------------------------------------------------------
(* One session under all its operations *)

Init == InitSession /\ InitFlow /\ InitScene /\ InitPure

Next ==
    \E s \in Solo :
        \/ async_setup_call(s)
        \/ async_setup_return(s)
        \/ \E p \in Platforms : forward_entry_setup(s, p)
        \/ /\ platform_running(s)
           /\ waiting[s] + running[s] < MaxCalls
           /\ async_request_call_enter(s)
        \/ async_request_call_acquired(s)
        \/ \E outcome \in {"returned", "raised"} :
               async_request_call_exit(s, outcome)
        \/ async_reset_call(s)
        \/ \E results \in [Platforms -> UnloadResults] :
               async_reset_return(s, results)
        \/ /\ platform_running(s)
           /\ unauthorized_calls[s] < MaxUnauthorizedCalls
           /\ handle_unauthorized_error(s)

Spec == Init /\ [][Next]_vars

-----------------------------------------------------------------------------
(* The pairing flows and the registrations they store *)

FlowNext ==
    \E f \in Flows :
        \/ async_step_user(f)
        \/ \E timeout \in BOOLEAN, bridges \in SUBSET Hosts :
               async_step_init_resume(f, timeout, bridges)
        \/ \E user_input \in Hosts : async_step_init(f, user_input)
        \/ async_step_link_submit(f)
        \/ \E result \in get_bridge_results(NoUsername) :
               \E bridgeid \in reported_bridgeids(f, result) :
                   async_step_link_resume(f, result, bridgeid)
        \/ \E manufacturerURL \in ManufacturerUrls, name \in Names,
              discovered_host \in Hosts, serial \in Serials :
               async_step_ssdp(f, manufacturerURL, name, discovered_host,
                               serial)
        \/ \E discovered_host \in Hosts, id \in HomekitIds :
               async_step_homekit(f, discovered_host, id)
        \/ \E import_host \in Hosts, path \in BOOLEAN :
               async_step_import_call(f, import_host, path)
        \/ \E found \in BOOLEAN :
               LET username ==
                       _find_username_from_config(flows[f].path, found)
               IN  \E result \in get_bridge_results(username) :
                       \E bridgeid \in reported_bridgeids(f, result) :
                           async_step_import_resume(f, username, result,
                                                    bridgeid)

FlowSpec == Init /\ [][FlowNext]_vars

-----------------------------------------------------------------------------
(* Scene activation over the groups and scenes a device can hold *)

SceneNext ==
    \E s \in Solo :
        \/ async_setup_call(s)
        \/ async_setup_return(s)
        \/ \E group \in Groups : device_add_group(group)
        \/ \E scene \in Scenes : device_add_scene(scene)
        \/ \E group_name \in GroupNames, scene_name \in SceneNames :
               hue_activate_scene_call(s, group_name, scene_name)
        \/ \E outcome \in {"ok", "raised"} : groups_update_return(s, outcome)
        \/ \E outcome \in {"ok", "raised"} : scenes_update_return(s, outcome)
        \/ \E outcome \in {"ok", "raised"} : set_action_return(s, outcome)

SceneSpec == Init /\ [][SceneNext]_vars

-----------------------------------------------------------------------------
(* One session under all its operations, scene activation included, on a
   device with one group and two scenes of one name *)

LifecycleInit ==
    /\ InitSession
    /\ InitFlow
    /\ InitPure
    /\ device_groups = <<[name |-> "Kitchen", lights |-> <<1, 2>>]>>
    /\ device_scenes = <<[name |-> "Relax", lights |-> <<3, 4>>],
                         [name |-> "Relax", lights |-> <<2, 1>>]>>
    /\ activate = [s \in Sessions |-> None]
    /\ scene_log = [s \in Sessions |-> new_scene_log]

LifecycleNext ==
    \E s \in Solo :
        \/ async_setup_call(s)
        \/ async_setup_return(s)
        \/ \E p \in Platforms : forward_entry_setup(s, p)
        \/ /\ platform_running(s)
           /\ waiting[s] + running[s] < MaxLifecycleCalls
           /\ async_request_call_enter(s)
        \/ async_request_call_acquired(s)
        \/ \E outcome \in {"returned", "raised"} :
               async_request_call_exit(s, outcome)
        \/ async_reset_call(s)
        \/ \E results \in [Platforms -> UnloadResults] :
               async_reset_return(s, results)
        \/ /\ platform_running(s)
           /\ unauthorized_calls[s] < MaxUnauthorizedCalls
           /\ handle_unauthorized_error(s)
        \/ \E group_name \in GroupNames, scene_name \in SceneNames :
               hue_activate_scene_call(s, group_name, scene_name)
        \/ \E outcome \in {"ok", "raised"} : groups_update_return(s, outcome)
        \/ \E outcome \in {"ok", "raised"} : scenes_update_return(s, outcome)
        \/ \E outcome \in {"ok", "raised"} : set_action_return(s, outcome)

LifecycleSpec == LifecycleInit /\ [][LifecycleNext]_vars

-----------------------------------------------------------------------------
(* get_bridge, called for each host *)

BridgeApiNext ==
    \E h \in Hosts :
        \/ \E username \in {NoUsername, "stored"} : get_bridge_call(h, username)
        \/ \E outcome \in DeviceOutcomes :
               get_bridge_create_user_return(h, outcome)
        \/ \E outcome \in DeviceOutcomes :
               get_bridge_initialize_return(h, outcome)

BridgeApiSpec == Init /\ [][BridgeApiNext]_vars

-----------------------------------------------------------------------------
(* normalize_bridge_id, called with every identifier *)

NormalizeNext ==
    \/ \E bridge_id \in Identifiers : normalize_call(bridge_id)
    \/ normalize_again

NormalizeSpec == Init /\ [][NormalizeNext]_vars

-----------------------------------------------------------------------------
(* Two sessions on one host platform: their setup and their teardown *)

RegistryNext ==
    \E s \in Sessions :
        \/ async_setup_call(s)
        \/ async_setup_return(s)
        \/ \E p \in Platforms : forward_entry_setup(s, p)
        \/ async_reset_call(s)
        \/ \E results \in [Platforms -> UnloadResults] :
               async_reset_return(s, results)

RegistrySpec == Init /\ [][RegistryNext]_vars

-----------------------------------------------------------------------------
(* Properties of the session *)

\* The limit a gate is created with: 3 for the first-generation bridge, 10
\* for every other model.
Limit(s) == IF api[s][1].modelid = "BSB001" THEN 3 ELSE 10

HasGate(s) == api[s] # None /\ parallel_updates_semaphore[s] # None

\* C1: with a gate of limit L, never more than L wrapped calls run at the
\* same time, a call starts to run only while fewer than L run, and a caller
\* is suspended only while L run.
C1_GateBoundsConcurrency ==
    /\ [](\A s \in Sessions : HasGate(s) => running[s] <= Limit(s))
    /\ [][\A s \in Sessions :
              HasGate(s) =>
                  /\ running'[s] > running[s] => running[s] < Limit(s)
                  /\ waiting'[s] > waiting[s] => running[s] = Limit(s)]_vars

\* C1 witness: the gate of limit 10 is full and an eleventh caller waits.
C1_Witness ==
    \E s \in Sessions :
        /\ HasGate(s)
        /\ Limit(s) = 10
        /\ running[s] = 10
        /\ waiting[s] = 1

\* C2: when every wrapped call has finished, by returning or by raising,
\* all the slots of the gate are free again.
C2_NoPermitLeak ==
    \A s \in Sessions :
        (HasGate(s) /\ running[s] = 0) =>
            parallel_updates_semaphore[s][1] = Limit(s)

\* C2 witness: calls have returned and calls have raised, none is left, and
\* the gate has all its slots.
C2_Witness ==
    \E s \in Sessions :
        /\ HasGate(s)
        /\ outcomes[s] = {"returned", "raised"}
        /\ running[s] = 0
        /\ waiting[s] = 0
        /\ parallel_updates_semaphore[s][1] = Limit(s)

\* C3: on a session that was set up, the first handle_unauthorized_error
\* clears authorized and creates one flow for the session's host; with any
\* number of calls there is that one flow and no other.
C3_UnauthorizedIdempotent ==
    \A s \in Sessions :
        setup_state[s] = "True" =>
            IF unauthorized_calls[s] = 0
            THEN authorized[s] /\ created_flows[s] = <<>>
            ELSE ~authorized[s] /\ created_flows[s] = <<host(s)>>

\* C3 witness: a second call has been made and there is still one flow.
C3_Witness ==
    \E s \in Sessions :
        /\ setup_state[s] = "True"
        /\ unauthorized_calls[s] = 2
        /\ created_flows[s] = <<host(s)>>

C5_TeardownResult ==
    \A s \in Sessions :
        /\ reset_state[s] = "False" => unload_results[s] # None
        /\ (setup_state[s] = "True" /\ unload_results[s] # None) =>
               /\ reset_state[s] \in {"True", "False"}
               /\ reset_state[s] = "False" <=>
                      \E p \in Platforms : unload_results[s][1][p] = "False"

\* C5 witness: an unload returned None, none returned False, and the
\* teardown succeeded.
C5_Witness ==
    \E s \in Sessions :
        /\ setup_state[s] = "True"
        /\ unload_results[s] # None
        /\ unload_results[s][1]["light"] = "None"
        /\ unload_results[s][1]["sensor"] = "True"
        /\ reset_state[s] = "True"

\* C6: a setup that failed has forwarded no platform, registered no
\* service, created no gate and left authorized false; on
\* AuthenticationRequired it has created one flow for the host and returned
\* False, on CannotConnect it has raised ConfigEntryNotReady.
C6_NoHalfInitializedSetup ==
    \A s \in Sessions :
        /\ setup_state[s] \in {"False", "ConfigEntryNotReady"} =>
               /\ bridge_error[s] # "none"
               /\ api[s] = None
               /\ parallel_updates_semaphore[s] = None
               /\ ~authorized[s]
               /\ \A p \in Platforms : forwarded[s][p] = "none"
               /\ services # Some(s)
        /\ bridge_error[s] = "AuthenticationRequired" =>
               setup_state[s] = "False" /\ created_flows[s] = <<host(s)>>
        /\ bridge_error[s] = "CannotConnect" =>
               setup_state[s] = "ConfigEntryNotReady"
        /\ bridge_error[s] = "Exception" => setup_state[s] = "False"

\* C6 witness: a setup that failed on AuthenticationRequired and created
\* the flow.
C6_Witness ==
    \E s \in Sessions :
        /\ setup_state[s] = "False"
        /\ bridge_error[s] = "AuthenticationRequired"
        /\ created_flows[s] = <<host(s)>>

-----------------------------------------------------------------------------
(* Properties of the pairing flow *)

\* C7: when the discovery of the init step leaves exactly one host that has
\* no registration, the step goes on into the link step for that host,
\* and the host-choice form is a result of the discovery only: a flow that
\* is past it never shows the form.
C7_SingleCandidateSkipsForm ==
    /\ [](\A f \in Flows :
              (/\ flow_log[f].hosts # None
               /\ Cardinality(flow_log[f].hosts[1]) = 1) =>
                  /\ flows[f].step = "get_bridge_link"
                  /\ ~flows[f].user_input
                  /\ flows[f].host # None
                  /\ flow_log[f].hosts[1] = {flows[f].host[1]})
    /\ [][\A f \in Flows :
              (flows'[f].step = "form_init" /\ flows[f].step # "form_init") =>
                  /\ flows[f].step = "discover"
                  /\ Cardinality(flow_log'[f].hosts[1]) > 1]_vars

\* C7 witness: discovery returned two hosts, one of them registered, and
\* the flow is in the link step for the other.
C7_Witness ==
    \E f \in Flows :
        /\ flows[f].step = "get_bridge_link"
        /\ flow_log[f].bridges # None
        /\ Cardinality(flow_log[f].bridges[1]) = 2
        /\ flow_log[f].hosts = Some({flows[f].host[1]})
        /\ flow_log[f].bridges[1] \ flow_log[f].hosts[1] \subseteq
               configured_hosts

\* C8: the link form is shown after get_bridge raised, with register_failed
\* for AuthenticationRequired and linking for CannotConnect and for any other
\* exception when the step had user input, and with no error when it had
\* none; the link step ends in the form or in the entry, never in an abort.
C8_LinkErrors ==
    /\ [](\A f \in Flows :
              flows[f].step = "form_link" =>
                  /\ flow_log[f].get_bridge \in
                         {"AuthenticationRequired", "CannotConnect",
                          "Exception"}
                  /\ flows[f].errors =
                         IF ~flows[f].user_input THEN "none"
                         ELSE IF flow_log[f].get_bridge =
                                     "AuthenticationRequired"
                         THEN "register_failed"
                         ELSE "linking")
    /\ [][\A f \in Flows :
              flows[f].step = "get_bridge_link" =>
                  flows'[f].step \in
                      {"get_bridge_link", "form_link", "create_entry"}]_vars

\* C8 witness: one flow shows register_failed after a submitted link form,
\* another shows the form without error after its first, input-less link.
C8_Witness ==
    \E f, g \in Flows :
        /\ flows[f].step = "form_link"
        /\ flows[f].user_input
        /\ flows[f].errors = "register_failed"
        /\ flows[g].step = "form_link"
        /\ ~flows[g].user_input
        /\ flow_log[g].get_bridge = "AuthenticationRequired"
        /\ flows[g].errors = "none"

\* C9: a flow has created an entry only as the result of a step whose
\* get_bridge returned; a flow that ended in an abort or shows a form has
\* created none, and the stored entries change only in such a step.
C9_NoPartialRegistration ==
    /\ [](/\ \A f \in Flows :
                 flow_log[f].created <=>
                     (/\ flows[f].step = "create_entry"
                      /\ flow_log[f].get_bridge = "ok")
          /\ entries # {} => \E f \in Flows : flow_log[f].created)
    /\ [][entries' # entries =>
              \E f \in Flows :
                  /\ flows[f].step \in {"get_bridge_link", "get_bridge_import"}
                  /\ flows'[f].step = "create_entry"
                  /\ flow_log'[f].get_bridge = "ok"]_vars

\* C9 witness: a flow was aborted on CannotConnect and another shows the
\* link form again after a failed link, and nothing is stored.
C9_Witness ==
    \E f, g \in Flows :
        /\ flows[f].step = "abort"
        /\ flow_log[f].get_bridge = "CannotConnect"
        /\ flows[g].step = "form_link"
        /\ flows[g].user_input
        /\ entries = {}

\* C10: the stored registrations hold at most one entry per normalized
\* bridge id and at most one per host.
C10_UniqueRegistrations ==
    \A e1, e2 \in entries :
        (\/ e1.data.host = e2.data.host
         \/ normalize_bridge_id(e1.data.bridge_id) =
                normalize_bridge_id(e2.data.bridge_id)) =>
            e1 = e2

\* C11: every stored registration carries as bridge_id the normalized
\* identifier of its bridge, 12 characters long, whatever the format the
\* device reported it in.
C11_RecordCarriesNormalizedId ==
    \A e \in entries :
        /\ Len(e.data.bridge_id) = 12
        /\ e.data.bridge_id \in
               {normalize_bridge_id(bridgeid) : bridgeid \in BridgeIds}

-----------------------------------------------------------------------------
(* Properties of scene activation *)

\* The lights of a group or scene as an unordered set.
LightSet(lights) == {lights[i] : i \in DOMAIN lights}

\* C12: the set_action a call issues is for a group of the requested group
\* name and a scene of the requested scene name whose lights are, as a set,
\* those of the group; and a call that gave up on the scene found, after
\* its refresh, no scene of that name with the lights of the group.
C12_SceneMatchesGroup ==
    \A s \in Sessions :
        LET log == scene_log[s]
        IN  /\ log.applied # None =>
                   /\ log.applied[1].group.name = log.group_name
                   /\ log.applied[1].scene.name = log.scene_name
                   /\ LightSet(log.applied[1].scene.lights) =
                          LightSet(log.applied[1].group.lights)
            /\ (log.result = "no_scene" /\ activate[s] = None) =>
                   \A g \in DOMAIN api[s][1].groups :
                       \A c \in DOMAIN api[s][1].scenes :
                           (/\ api[s][1].groups[g].name = log.group_name
                            /\ api[s][1].scenes[c].name = log.scene_name) =>
                               LightSet(api[s][1].scenes[c].lights) #
                                   LightSet(api[s][1].groups[g].lights)

\* C12 witness: two scenes have the requested name, the first of them with
\* other lights than the group; the scene applied is the second, which
\* lists the lights of the group in another order.
C12_Witness ==
    \E s \in Sessions :
        LET log == scene_log[s]
        IN  /\ log.result = "set_action"
            /\ log.applied # None
            /\ log.applied[1].scene.lights # log.applied[1].group.lights
            /\ Len(api[s][1].scenes) = 2
            /\ api[s][1].scenes[1].name = log.scene_name
            /\ api[s][1].scenes[2] = log.applied[1].scene
            /\ LightSet(api[s][1].scenes[1].lights) #
                   LightSet(log.applied[1].group.lights)

\* What is left of a call: two awaits of the refresh and the retry, the
\* await of set_action, nothing.
Remaining(s) ==
    IF activate[s] = None THEN 0
    ELSE CASE activate[s][1].pc = "groups_update" -> 3
           [] activate[s][1].pc = "scenes_update" -> 2
           [] OTHER -> 1

\* C13: a call makes at most one refresh and at most two resolution
\* attempts; it refreshes only after a first attempt that left the group or
\* the scene unresolved, and retries only after a refresh; unresolved after
\* the retry, it has returned with a warning, having applied nothing and
\* raised nothing; and every step of a call brings it nearer to its end.
C13_OneRefreshTwoAttempts ==
    /\ [](\A s \in Sessions :
              LET log == scene_log[s]
              IN  /\ log.refreshes <= 1
                  /\ log.attempts <= 2
                  /\ log.refreshes = 1 => log.first = "unresolved"
                  /\ log.attempts = 2 => log.refreshes = 1
                  /\ (log.attempts = 2 /\ log.applied = None) =>
                         /\ activate[s] = None
                         /\ log.result \in {"no_group", "no_scene"}
                  /\ log.result \in {"no_group", "no_scene"} =>
                         /\ log.attempts = 2
                         /\ log.applied = None
                         /\ activate[s] = None)
    /\ [][\A s \in Sessions :
              activate'[s] # activate[s] =>
                  \/ activate[s] = None
                  \/ Remaining(s)' < Remaining(s)]_vars

\* C13 witness: a call that refreshed, tried again, still found no scene
\* and returned.
C13_Witness ==
    \E s \in Sessions :
        /\ activate[s] = None
        /\ scene_log[s].refreshes = 1
        /\ scene_log[s].attempts = 2
        /\ scene_log[s].result = "no_scene"
        /\ scene_log[s].applied = None

-----------------------------------------------------------------------------
(* Properties of normalize_bridge_id and get_bridge *)

\* C14: for 16 characters normalize_bridge_id returns the first six and the
\* last six, for 12 characters and for every other length the identifier
\* itself; and normalizing what it returned returns the same again.
C14_NormalizeIdempotent ==
    normalize_calls.returned # None =>
        LET x == normalize_calls.bridge_id[1]
            y == normalize_calls.returned[1]
        IN  /\ Len(x) = 16 =>
                   /\ Len(y) = 12
                   /\ \A i \in 1..6 : y[i] = x[i] /\ y[6 + i] = x[10 + i]
            /\ Len(x) # 16 => y = x
            /\ normalize_calls.again # None => normalize_calls.again[1] = y

\* C14 witness: a 16-character identifier was cut to 12 characters, and
\* these were returned unchanged by the second call.
C14_Witness ==
    /\ normalize_calls.bridge_id = Some(BridgeIdA)
    /\ normalize_calls.returned = Some(SerialA)
    /\ normalize_calls.again = Some(SerialA)

-----------------------------------------------------------------------------
(* Properties of the session over its whole life *)

\* The slots of the gate: the free ones and those the running calls hold.
Budget(s) == parallel_updates_semaphore[s][1] + running[s]

\* C15: a session whose setup succeeded has a gate of 3 slots for the model
\* BSB001 and of 10 for any other, and no step after the setup (request,
\* scene activation, handle_unauthorized_error, teardown) changes the
\* number of slots or takes the gate away.
C15_BudgetFixedAtSetup ==
    /\ [](\A s \in Sessions :
              setup_state[s] = "True" =>
                  /\ HasGate(s)
                  /\ Budget(s) = IF api[s][1].modelid = "BSB001"
                                 THEN 3 ELSE 10)
    /\ [][\A s \in Sessions :
              setup_state[s] = "True" =>
                  /\ parallel_updates_semaphore'[s] # None
                  /\ api'[s] # None
                  /\ api'[s][1].modelid = api[s][1].modelid
                  /\ Budget(s)' = Budget(s)]_vars

\* C15 witness: on a session of model BSB001, requests have returned and
\* raised, a scene was activated, authorization was lost and the teardown
\* has run, and the gate still has its 3 slots.
C15_Witness ==
    \E s \in Sessions :
        /\ setup_state[s] = "True"
        /\ api[s][1].modelid = "BSB001"
        /\ outcomes[s] = {"returned", "raised"}
        /\ scene_log[s].result = "set_action"
        /\ unauthorized_calls[s] > 0
        /\ reset_state[s] \in {"True", "False"}
        /\ running[s] = 0
        /\ parallel_updates_semaphore[s] = Some(3)

\* C16: get_bridge raises AuthenticationRequired when a device call raised
\* LinkButtonNotPressed or Unauthorized, CannotConnect when it raised a
\* timeout or a RequestError, and AuthenticationRequired for any other
\* AiohueException; it returns the bridge only when initialize returned;
\* without a username create_user is called first and initialize after it,
\* with a username initialize alone.
C16_GetBridgeErrors ==
    \A h \in Hosts :
        LET call == bridge_calls[h]
        IN  /\ call.pc = "done" =>
                   /\ call.raised \in {"LinkButtonNotPressed", "Unauthorized"}
                          => call.result = "AuthenticationRequired"
                   /\ call.raised \in {"TimeoutError", "RequestError"}
                          => call.result = "CannotConnect"
                   /\ call.raised = "AiohueException"
                          => call.result = "AuthenticationRequired"
                   /\ call.result = "ok" <=>
                          /\ call.raised = "ok"
                          /\ call.calls[Len(call.calls)] = "initialize"
            /\ call.pc # "done" => call.result = "none"
            /\ \A i \in DOMAIN call.calls :
                   call.calls[i] = "initialize" =>
                       IF call.username = NoUsername
                       THEN i = 2 /\ call.calls[1] = "create_user"
                       ELSE i = 1
            /\ \A i \in DOMAIN call.calls :
                   call.calls[i] = "create_user" =>
                       i = 1 /\ call.username = NoUsername

\* C16 witness: without a username, create_user returned and initialize
\* raised a protocol exception of no special kind; with a username, the
\* single call timed out.
C16_Witness ==
    \E h, g \in Hosts :
        /\ bridge_calls[h].username = NoUsername
        /\ bridge_calls[h].calls = <<"create_user", "initialize">>
        /\ bridge_calls[h].raised = "AiohueException"
        /\ bridge_calls[h].result = "AuthenticationRequired"
        /\ bridge_calls[g].username = "stored"
        /\ bridge_calls[g].calls = <<"initialize">>
        /\ bridge_calls[g].raised = "TimeoutError"
        /\ bridge_calls[g].result = "CannotConnect"

-----------------------------------------------------------------------------
(* Properties of the import and discovery steps *)

\* C17: the import step ends by what its get_bridge returned or raised:
\* returned, in the entry for the host; AuthenticationRequired, in the link
\* step for the same host, entered without user input, so that the link
\* form it may show carries no error; CannotConnect, in the abort
\* cannot_connect; any other exception, in the abort unknown.
C17_ImportOutcomes ==
    /\ [][\A f \in Flows :
              (flows[f].step = "get_bridge_import" /\ flows'[f] # flows[f]) =>
                  LET result == flow_log'[f].get_bridge
                      import_host == flows[f].context_host[1]
                  IN  /\ result \in {"ok", "AuthenticationRequired",
                                     "CannotConnect", "Exception"}
                      /\ result = "ok" =>
                             /\ flows'[f].step = "create_entry"
                             /\ \E e \in entries' : e.data.host = import_host
                      /\ result = "AuthenticationRequired" =>
                             /\ flows'[f].step = "get_bridge_link"
                             /\ flows'[f].host = Some(import_host)
                             /\ flows'[f].context_host = Some(import_host)
                             /\ ~flows'[f].user_input
                             /\ entries' = entries
                      /\ result = "CannotConnect" =>
                             /\ flows'[f].step = "abort"
                             /\ flows'[f].reason = "cannot_connect"
                             /\ entries' = entries
                      /\ result = "Exception" =>
                             /\ flows'[f].step = "abort"
                             /\ flows'[f].reason = "unknown"
                             /\ entries' = entries]_vars
    /\ [](\A f \in Flows :
              (flows[f].step = "form_link" /\ ~flows[f].user_input) =>
                  flows[f].errors = "none")

\* C17 witness: a discovered flow whose import met AuthenticationRequired
\* shows the link form for its host without an error, and another flow was
\* aborted with cannot_connect.
C17_Witness ==
    \E f, g \in Flows :
        /\ flows[f].step = "form_link"
        /\ flows[f].unique_id # None
        /\ flows[f].host # None
        /\ flows[f].host = flows[f].context_host
        /\ ~flows[f].user_input
        /\ flows[f].errors = "none"
        /\ flows[g].step = "abort"
        /\ flows[g].reason = "cannot_connect"

\* C18: a flow entered by an advertisement (ssdp, HomeKit) for a host goes
\* on to the import step, and so to get_bridge, only when no other flow in
\* progress is a flow for that host and the host has no registration.
C18_DiscoveredDeduplicated ==
    [][\A f \in Flows :
           (/\ flows[f].step = "new"
            /\ flows'[f].step = "get_bridge_import"
            /\ flows'[f].unique_id # None) =>
               /\ \A g \in Flows \ {f} :
                      in_progress(g) =>
                          /\ flows[g].host # flows'[f].context_host
                          /\ flows[g].context_host # flows'[f].context_host
               /\ flows'[f].context_host[1] \notin configured_hosts]_vars

-----------------------------------------------------------------------------
(* Properties of the setup and of the service registry *)

\* C19: whenever a platform of the session is scheduled or runs, authorized
\* is true, or a request waits or runs, the session has its api and its
\* gate: the platforms, which make the requests, never see a session
\* without a gate.
C19_GateBeforeRequest ==
    \A s \in Sessions :
        (\/ \E p \in Platforms : forwarded[s][p] # "none"
         \/ authorized[s]
         \/ waiting[s] + running[s] > 0) =>
            /\ api[s] # None
            /\ parallel_updates_semaphore[s] # None

\* C19 witness: the first platform to run makes a request while the other
\* two are still scheduled.
C19_Witness ==
    \E s \in Sessions :
        /\ authorized[s]
        /\ forwarded[s]["light"] = "running"
        /\ forwarded[s]["sensor"] = "scheduled"
        /\ running[s] = 1
        /\ parallel_updates_semaphore[s] # None

\* C20: when two sessions were set up and one of them has been torn down,
\* the service hue_activate_scene is registered still and its handler is
\* that of the session that remains.
C20_TeardownKeepsOtherHandler ==
    \A s, t \in Sessions :
        (/\ s # t
         /\ setup_state[s] = "True"
         /\ setup_state[t] = "True"
         /\ reset_state[s] # "idle"
         /\ reset_state[t] = "idle") =>
            services = Some(t)

====
